---- MODULE Spec2Model ----
(***************************************************************************)
(* Call-ingestion and data-governance engine of the AI-Voice-Agent backend *)
(* as a state machine over the persisted rows (Caller, Call) and a clock.  *)
(* One action per service / repository / controller operation.  Every      *)
(* prisma statement is one atomic step of the store.                       *)
(***************************************************************************)
EXTENDS Integers, FiniteSets, Sequences, TLC

\* ------------------------------------------------------------------ bounds
\* last tick of the clock (one tick = one day) while a call's lifecycle is followed
MaxTime == 1
\* last day of the clock while callers' retention is followed
MaxDay == 2
\* ids the store hands out for Call rows (ids are never reused)
MaxCallId == 2
\* calls created while a call's lifecycle is followed
MaxLifecycleCalls == 1
\* ids the store hands out for Caller rows (ids are never reused)
MaxCallerId == 2
\* largest totalCalls counted
MaxTotalCalls == 2

\* ------------------------------------------------------------------ values
\* SQL NULL / JavaScript undefined of a number or Date field
NULL == 0 - 1
\* undefined / NULL of a string field
NoStr == "<none>"

Statuses ==
  {"RINGING", "CONNECTING", "IN_PROGRESS", "COMPLETED", "FAILED", "NO_ANSWER", "TRANSFERRED"}
Terminal == {"COMPLETED", "FAILED", "NO_ANSWER", "TRANSFERRED"}

Tenants == {"t1", "t2"}
\* tenant.dataRetentionDays, validated to 1..365
dataRetentionDays == [t \in Tenants |-> IF t = "t1" THEN 1 ELSE 2]
\* phoneNumber rows: id -> owning tenant
PhoneNumbers == [pn1 |-> "t1"]
PhoneNumberIds == DOMAIN PhoneNumbers
\* numbers of the people on the other end of the line
Numbers == {"+91A"}
\* carrier-assigned call identifiers (outbound calls get <<"outbound", now>>)
CarrierIds == {<<"carrier", 1>>}

\* JavaScript truthiness of an optional number: undefined and 0 are falsy
Truthy(n) == n # NULL /\ n # 0
\* JavaScript truthiness of an optional string: undefined and "" are falsy
TruthyStr(s) == s # NoStr /\ s # ""
\* SQL comparison a < b: never true of NULL
Lt(a, b) == a # NULL /\ b # NULL /\ a < b

\* ------------------------------------------------------------------ state
VARIABLES
  now,          \* the clock: Date.now() / new Date()
  callers,      \* the Caller table
  calls,        \* the Call table
  nextCallerId, \* next Caller id of the store
  nextCallId,   \* next Call id of the store
  last,         \* the operation that finished last and its outcome
  trig,         \* the triggerOutboundCall invocations in flight, per request slot
  unsaved,      \* history: per Caller, the unsave request still in force (when, for how long)
  env,          \* env-config: the webhook secrets and NODE_ENV of the deployment
  processedWebhooks, \* the dedup Set of the webhook middleware, in insertion order
  nextRandom,   \* how many timestamp+random dedup keys were drawn, plus one
  request,      \* history: the webhook request received last
  response,     \* history: what the middleware chain did with it
  transcripts,  \* the Transcript table
  extractions,  \* the Extraction table
  recordings,   \* the Recording table
  sweep,        \* the DataCleanupJob.run invocations, per invocation slot
  preview,      \* history: what the last DataCleanupJob.preview returned
  issued,       \* history: the encrypt calls made, with the token each returned
  nextIv,       \* how many IVs crypto.randomBytes has drawn, plus one
  vault         \* history: the EncryptionUtil call made last and how it ended

\* the webhook gateway's part of the state
hookVars == <<env, processedWebhooks, nextRandom, request, response>>

\* the data-retention sweep's part of the state
reapVars == <<transcripts, extractions, recordings, sweep, preview>>
\* the EncryptionUtil's part of the state
vaultVars == <<issued, nextIv, vault>>

vars ==
  <<now, callers, calls, nextCallerId, nextCallId, last, trig, unsaved, hookVars,
    reapVars, vaultVars>>

\* request slots that can each run one triggerOutboundCall at a time
Procs == {"p1", "p2"}
CallerIds == 1..MaxCallerId

CallById(id) == CHOOSE c \in calls : c.id = id
CallExists(id) == \E c \in calls : c.id = id
CallerById(id) == CHOOSE k \in callers : k.id = id
CallerExists(id) == \E k \in callers : k.id = id

\* what `last` records: the operation, the row id and status it named, how it ended,
\* and the parity of the number of operations finished so far
Outcome(op, id, status, result) ==
  [op |-> op, id |-> id, status |-> status, result |-> result, n |-> 1 - last.n]

\* ------------------------------------------------------------------ CallService
\* createOutcome with the externalId column not unique
createOutcome_noUnique(externalId, callerId) ==
  IF ~CallerExists(callerId) THEN "ForeignKey" ELSE "ok"

\* outcome of prisma.call.create: externalId is a unique column (findByExternalId
\* reads it with findUnique), callerId references a Caller row
createOutcome(externalId, callerId) ==
  IF \E c \in calls : c.externalId = externalId THEN "Conflict"
  ELSE IF ~CallerExists(callerId) THEN "ForeignKey"
  ELSE "ok"

\* the row prisma.call.create inserts: the six fields CallService.create passes, the
\* other columns at their NULL defaults
newCall(externalId, tenantId, phoneNumberId, callerId, direction, status) ==
  [id |-> nextCallId, externalId |-> externalId, tenantId |-> tenantId,
   phoneNumberId |-> phoneNumberId, callerId |-> callerId,
   direction |-> direction, status |-> status,
   answeredAt |-> NULL, endedAt |-> NULL, durationSecs |-> NULL,
   summary |-> NoStr, sentiment |-> NoStr]

CallService_create(externalId, tenantId, phoneNumberId, callerId, direction, status) ==
  /\ IF createOutcome(externalId, callerId) = "ok"
       THEN /\ nextCallId <= MaxCallId
            /\ calls' = calls \cup
                   {newCall(externalId, tenantId, phoneNumberId, callerId, direction, status)}
            /\ nextCallId' = nextCallId + 1
            /\ last' = Outcome("create", nextCallId, status, "ok")
       ELSE /\ last' = Outcome("create", 0, status, createOutcome(externalId, callerId))
            /\ UNCHANGED <<calls, nextCallId>>
  /\ UNCHANGED <<now, callers, nextCallerId, trig, unsaved, hookVars, reapVars,
                 vaultVars>>

\* the data object of CallService.update applied to row c (later spreads win)
updateRow(c, status, summary, sentiment) ==
  LET r1 == IF status # NoStr THEN [c EXCEPT !.status = status] ELSE c
      r2 == IF TruthyStr(summary) THEN [r1 EXCEPT !.summary = summary] ELSE r1
      r3 == IF TruthyStr(sentiment) THEN [r2 EXCEPT !.sentiment = sentiment] ELSE r2
      r4 == IF status = "COMPLETED" THEN [r3 EXCEPT !.endedAt = now] ELSE r3
      r5 == IF status = "IN_PROGRESS" THEN [r4 EXCEPT !.answeredAt = now] ELSE r4
  IN r5

\* CallService.update: the row is looked up by id alone
CallService_update(id, tenantId, status, summary, sentiment) ==
  /\ IF CallExists(id)
       THEN /\ calls' = (calls \ {CallById(id)}) \cup
                          {updateRow(CallById(id), status, summary, sentiment)}
            /\ last' = Outcome("update", id, status, "ok")
       ELSE /\ last' = Outcome("update", id, status, "NotFound")
            /\ UNCHANGED calls
  /\ UNCHANGED <<now, callers, nextCallerId, nextCallId, trig, unsaved, hookVars, reapVars,
                 vaultVars>>

\* the data object of CallService.updateStatus applied to row c (later spreads win)
updateStatusRow(c, status, durationSecs, endedAt) ==
  LET r1 == [c EXCEPT !.status = status]
      r2 == IF Truthy(durationSecs) THEN [r1 EXCEPT !.durationSecs = durationSecs] ELSE r1
      r3 == IF endedAt # NULL THEN [r2 EXCEPT !.endedAt = endedAt] ELSE r2
      r4 == IF status = "COMPLETED" THEN [r3 EXCEPT !.endedAt = now] ELSE r3
      r5 == IF status = "IN_PROGRESS" THEN [r4 EXCEPT !.answeredAt = now] ELSE r4
  IN r5

\* updateStatus refusing a Call that is already terminal
updateStatus_rejectTerminal(id, status, durationSecs, endedAt) ==
  /\ IF CallExists(id) /\ CallById(id).status \notin Terminal
       THEN /\ calls' = (calls \ {CallById(id)}) \cup
                          {updateStatusRow(CallById(id), status, durationSecs, endedAt)}
            /\ last' = Outcome("updateStatus", id, status, "ok")
       ELSE /\ last' = Outcome("updateStatus", id, status, "NotFound")
            /\ UNCHANGED calls
  /\ UNCHANGED <<now, callers, nextCallerId, nextCallId, trig, unsaved, hookVars, reapVars,
                 vaultVars>>

CallService_updateStatus(id, status, durationSecs, endedAt) ==
  /\ IF CallExists(id)
       THEN /\ calls' = (calls \ {CallById(id)}) \cup
                          {updateStatusRow(CallById(id), status, durationSecs, endedAt)}
            /\ last' = Outcome("updateStatus", id, status, "ok")
       ELSE /\ last' = Outcome("updateStatus", id, status, "NotFound")
            /\ UNCHANGED calls
  /\ UNCHANGED <<now, callers, nextCallerId, nextCallId, trig, unsaved, hookVars, reapVars,
                 vaultVars>>

\* CallService.delete: the row is looked up by id alone
CallService_delete(id, tenantId) ==
  /\ IF CallExists(id)
       THEN /\ calls' = calls \ {CallById(id)}
            /\ last' = Outcome("delete", id, NoStr, "ok")
       ELSE /\ last' = Outcome("delete", id, NoStr, "NotFound")
            /\ UNCHANGED calls
  /\ UNCHANGED <<now, callers, nextCallerId, nextCallId, trig, unsaved, hookVars, reapVars,
                 vaultVars>>

\* CallService.findById: prisma.call.findFirst({ where: { id, tenantId } })
findById(id, tenantId) == {c \in calls : c.id = id /\ c.tenantId = tenantId}

\* ------------------------------------------------------------------ InternalCallController
\* POST /api/internal/calls/:callId/complete
completeCall(callId, summary, sentiment) ==
  /\ IF CallExists(callId)
       THEN LET c1 == updateStatusRow(CallById(callId), "COMPLETED", NULL, now)
                c2 == IF TruthyStr(summary) THEN [c1 EXCEPT !.summary = summary] ELSE c1
                c3 == IF TruthyStr(sentiment) THEN [c2 EXCEPT !.sentiment = sentiment] ELSE c2
            IN /\ calls' = (calls \ {CallById(callId)}) \cup
                             {IF TruthyStr(summary) \/ TruthyStr(sentiment) THEN c3 ELSE c1}
               /\ last' = Outcome("completeCall", callId, "COMPLETED", "ok")
       ELSE /\ last' = Outcome("completeCall", callId, "COMPLETED", "NotFound")
            /\ UNCHANGED calls
  /\ UNCHANGED <<now, callers, nextCallerId, nextCallId, trig, unsaved, hookVars, reapVars,
                 vaultVars>>

\* POST /api/internal/calls/:callId/transfer
transferCall(callId) ==
  /\ IF CallExists(callId)
       THEN /\ calls' = (calls \ {CallById(callId)}) \cup
                          {updateStatusRow(CallById(callId), "TRANSFERRED", NULL, now)}
            /\ last' = Outcome("transferCall", callId, "TRANSFERRED", "ok")
       ELSE /\ last' = Outcome("transferCall", callId, "TRANSFERRED", "NotFound")
            /\ UNCHANGED calls
  /\ UNCHANGED <<now, callers, nextCallerId, nextCallId, trig, unsaved, hookVars, reapVars,
                 vaultVars>>

\* ------------------------------------------------------------------ clock
\* a day passes, up to day max
TickTo(max) ==
  /\ now < max
  /\ now' = now + 1
  /\ UNCHANGED <<callers, calls, nextCallerId, nextCallId, last, trig, unsaved, hookVars, reapVars,
                 vaultVars>>

Tick == TickTo(MaxTime)

\* ------------------------------------------------------------------ CallerRepository
\* Caller columns no statement of the service layer writes at creation
CallerDefaultIsSaved == FALSE
CallerDefaultTotalCalls == 1

\* CallerRepository.findByPhoneNumber: the rows with the unique key (tenantId, phoneNumber)
findByPhoneNumber(phoneNumber, tenantId) ==
  {k \in callers : k.tenantId = tenantId /\ k.phoneNumber = phoneNumber}

\* CallerRepository.create: expiresAt is optional, isSaved and totalCalls are written
CallerRepository_create(tenantId, phoneNumber, expiresAt) ==
  /\ IF findByPhoneNumber(phoneNumber, tenantId) # {}
       THEN /\ last' = Outcome("callerCreate", 0, NoStr, "Conflict")
            /\ UNCHANGED <<callers, nextCallerId>>
       ELSE /\ nextCallerId <= MaxCallerId
            /\ callers' = callers \cup
                   {[id |-> nextCallerId, tenantId |-> tenantId, phoneNumber |-> phoneNumber,
                     isSaved |-> FALSE, expiresAt |-> expiresAt, totalCalls |-> 1,
                     lastCallAt |-> NULL]}
            /\ nextCallerId' = nextCallerId + 1
            /\ last' = Outcome("callerCreate", nextCallerId, NoStr, "ok")
  /\ UNCHANGED <<now, calls, nextCallId, trig, unsaved, hookVars, reapVars,
                 vaultVars>>

\* CallerRepository.updateLastCall
updateLastCall(id) ==
  /\ IF CallerExists(id)
       THEN /\ CallerById(id).totalCalls < MaxTotalCalls
            /\ callers' = (callers \ {CallerById(id)}) \cup
                 {[CallerById(id) EXCEPT !.lastCallAt = now, !.totalCalls = @ + 1]}
            /\ last' = Outcome("updateLastCall", id, NoStr, "ok")
       ELSE /\ last' = Outcome("updateLastCall", id, NoStr, "NotFound")
            /\ UNCHANGED callers
  /\ UNCHANGED <<now, calls, nextCallerId, nextCallId, trig, unsaved, hookVars, reapVars,
                 vaultVars>>

\* CallerRepository.saveCaller
saveCaller(id) ==
  /\ IF CallerExists(id)
       THEN /\ callers' = (callers \ {CallerById(id)}) \cup
                 {[CallerById(id) EXCEPT !.isSaved = TRUE, !.expiresAt = NULL]}
            /\ last' = Outcome("saveCaller", id, NoStr, "ok")
       ELSE /\ last' = Outcome("saveCaller", id, NoStr, "NotFound")
            /\ UNCHANGED callers
  /\ unsaved' = {u \in unsaved : u.id # id}
  /\ UNCHANGED <<now, calls, nextCallerId, nextCallId, trig, hookVars, reapVars,
                 vaultVars>>

\* the expiry counted from the last call instead of from today
unsaveExpiry_fromLastCall(k, retentionDays) ==
  (IF k.lastCallAt # NULL THEN k.lastCallAt ELSE now) + retentionDays

\* expiryDate of unsaveCaller: today's date moved retentionDays days ahead
unsaveExpiry(k, retentionDays) == now + retentionDays

\* CallerRepository.unsaveCaller
unsaveCaller(id, retentionDays) ==
  /\ IF CallerExists(id)
       THEN /\ callers' = (callers \ {CallerById(id)}) \cup
                 {[CallerById(id) EXCEPT !.isSaved = FALSE,
                                         !.expiresAt = unsaveExpiry(CallerById(id), retentionDays)]}
            /\ unsaved' = {u \in unsaved : u.id # id} \cup
                             {[id |-> id, at |-> now, days |-> retentionDays]}
            /\ last' = Outcome("unsaveCaller", id, NoStr, "ok")
       ELSE /\ last' = Outcome("unsaveCaller", id, NoStr, "NotFound")
            /\ UNCHANGED <<callers, unsaved>>
  /\ UNCHANGED <<now, calls, nextCallerId, nextCallId, trig, hookVars, reapVars,
                 vaultVars>>

\* ------------------------------------------------------------------ CallerRegistry
\* expiry seeded from the owning tenant's retention policy
retentionExpiry(tenantId) == now + dataRetentionDays[tenantId]

\* findOrCreate: the existing Caller, or CallerRepository.create with the seeded expiry
findOrCreate(tenantId, phoneNumber) ==
  IF findByPhoneNumber(phoneNumber, tenantId) # {}
    THEN /\ last' = Outcome("findOrCreate",
                            (CHOOSE k \in findByPhoneNumber(phoneNumber, tenantId) : TRUE).id,
                            NoStr, "found")
         /\ UNCHANGED <<now, callers, calls, nextCallerId, nextCallId, trig, unsaved, hookVars, reapVars,
                 vaultVars>>
    ELSE /\ CallerRepository_create(tenantId, phoneNumber, retentionExpiry(tenantId))

\* ------------------------------------------------------------------ triggerOutboundCall
\* `tenant?.dataRetentionDays || 15`
DefaultRetentionDays == 15
TriggerIdle ==
  [pc |-> "idle", tenantId |-> NoStr, phoneNumberId |-> NoStr, toNumber |-> NoStr, callerId |-> 0,
   created |-> FALSE]

\* the phone number looked up by id alone, whoever owns it
trigger_findPhoneNumber_anyTenant(p, tenantId, phoneNumberId, toNumber) ==
  /\ trig[p].pc = "idle"
  /\ IF phoneNumberId \in PhoneNumberIds
       THEN /\ trig' = [trig EXCEPT ![p] =
                          [pc |-> "findCaller", tenantId |-> tenantId,
                           phoneNumberId |-> phoneNumberId, toNumber |-> toNumber,
                           callerId |-> 0, created |-> FALSE]]
            /\ UNCHANGED last
       ELSE /\ last' = Outcome("triggerOutboundCall", 0, NoStr, "PhoneNotFound")
            /\ UNCHANGED trig
  /\ UNCHANGED <<now, callers, calls, nextCallerId, nextCallId, unsaved, hookVars, reapVars,
                 vaultVars>>

\* prisma.phoneNumber.findFirst({id, tenantId}); absent: success = false
trigger_findPhoneNumber(p, tenantId, phoneNumberId, toNumber) ==
  /\ trig[p].pc = "idle"
  /\ IF phoneNumberId \in PhoneNumberIds /\ PhoneNumbers[phoneNumberId] = tenantId
       THEN /\ trig' = [trig EXCEPT ![p] =
                          [pc |-> "findCaller", tenantId |-> tenantId,
                           phoneNumberId |-> phoneNumberId, toNumber |-> toNumber,
                           callerId |-> 0, created |-> FALSE]]
            /\ UNCHANGED last
       ELSE /\ last' = Outcome("triggerOutboundCall", 0, NoStr, "PhoneNotFound")
            /\ UNCHANGED trig
  /\ UNCHANGED <<now, callers, calls, nextCallerId, nextCallId, unsaved, hookVars, reapVars,
                 vaultVars>>

\* prisma.caller.findUnique({tenantId_phoneNumber})
trigger_findCaller(p) ==
  /\ trig[p].pc = "findCaller"
  /\ LET found == findByPhoneNumber(trig[p].toNumber, trig[p].tenantId)
     IN trig' = [trig EXCEPT ![p] =
                   IF found = {}
                     THEN [@ EXCEPT !.pc = "createCaller"]
                     ELSE [@ EXCEPT !.pc = "createCall",
                                    !.callerId = (CHOOSE k \in found : TRUE).id]]
  /\ UNCHANGED <<now, callers, calls, nextCallerId, nextCallId, last, unsaved, hookVars, reapVars,
                 vaultVars>>

\* the expiry with the tenant's retention policy ignored
triggerExpiry_default(tenantId) == now + DefaultRetentionDays

\* expiresAt of the Caller triggerOutboundCall creates
triggerExpiry(tenantId) ==
  now + (IF Truthy(dataRetentionDays[tenantId]) THEN dataRetentionDays[tenantId]
         ELSE DefaultRetentionDays)

\* the caller created with no unique key on (tenantId, phoneNumber)
trigger_createCaller_noUnique(p) ==
  /\ trig[p].pc = "createCaller"
  /\ nextCallerId <= MaxCallerId
  /\ callers' = callers \cup
         {[id |-> nextCallerId, tenantId |-> trig[p].tenantId,
           phoneNumber |-> trig[p].toNumber,
           isSaved |-> CallerDefaultIsSaved,
           expiresAt |-> triggerExpiry(trig[p].tenantId),
           totalCalls |-> CallerDefaultTotalCalls, lastCallAt |-> NULL]}
  /\ nextCallerId' = nextCallerId + 1
  /\ trig' = [trig EXCEPT ![p] = [@ EXCEPT !.pc = "createCall", !.callerId = nextCallerId,
                                           !.created = TRUE]]
  /\ UNCHANGED <<now, calls, nextCallId, unsaved, last, hookVars, reapVars,
                 vaultVars>>

\* prisma.tenant.findUnique, then prisma.caller.create({tenantId, phoneNumber, expiresAt});
\* a unique-key failure is caught by the method's catch: success = false
trigger_createCaller(p) ==
  /\ trig[p].pc = "createCaller"
  /\ IF findByPhoneNumber(trig[p].toNumber, trig[p].tenantId) # {}
       THEN /\ last' = Outcome("triggerOutboundCall", 0, NoStr, "Failed")
            /\ trig' = [trig EXCEPT ![p] = TriggerIdle]
            /\ UNCHANGED <<callers, nextCallerId>>
       ELSE /\ nextCallerId <= MaxCallerId
            /\ callers' = callers \cup
                   {[id |-> nextCallerId, tenantId |-> trig[p].tenantId,
                     phoneNumber |-> trig[p].toNumber,
                     isSaved |-> CallerDefaultIsSaved,
                     expiresAt |-> triggerExpiry(trig[p].tenantId),
                     totalCalls |-> CallerDefaultTotalCalls, lastCallAt |-> NULL]}
            /\ nextCallerId' = nextCallerId + 1
            /\ trig' = [trig EXCEPT ![p] = [@ EXCEPT !.pc = "createCall",
                                                     !.callerId = nextCallerId,
                                                     !.created = TRUE]]
            /\ UNCHANGED last
  /\ UNCHANGED <<now, calls, nextCallId, unsaved, hookVars, reapVars,
                 vaultVars>>

\* the call record created with the schema's default direction
trigger_createCall_inbound(p) ==
  /\ trig[p].pc = "createCall"
  /\ IF createOutcome(<<"outbound", now>>, trig[p].callerId) = "ok"
       THEN /\ nextCallId <= MaxCallId
            /\ calls' = calls \cup
                   {newCall(<<"outbound", now>>, trig[p].tenantId, trig[p].phoneNumberId,
                            trig[p].callerId, "INBOUND", "RINGING")}
            /\ nextCallId' = nextCallId + 1
            /\ last' = Outcome("triggerOutboundCall", nextCallId, "RINGING", "ok")
       ELSE /\ last' = Outcome("triggerOutboundCall", 0, NoStr, "Failed")
            /\ UNCHANGED <<calls, nextCallId>>
  /\ trig' = [trig EXCEPT ![p] = TriggerIdle]
  /\ UNCHANGED <<now, callers, nextCallerId, unsaved, hookVars, reapVars,
                 vaultVars>>

\* this.create({externalId: `outbound-${Date.now()}`, ..., 'OUTBOUND', 'RINGING'}); a
\* failure is caught by the method's catch: success = false
trigger_createCall(p) ==
  /\ trig[p].pc = "createCall"
  /\ IF createOutcome(<<"outbound", now>>, trig[p].callerId) = "ok"
       THEN /\ nextCallId <= MaxCallId
            /\ calls' = calls \cup
                   {newCall(<<"outbound", now>>, trig[p].tenantId, trig[p].phoneNumberId,
                            trig[p].callerId, "OUTBOUND", "RINGING")}
            /\ nextCallId' = nextCallId + 1
            /\ last' = Outcome("triggerOutboundCall", nextCallId, "RINGING", "ok")
       ELSE /\ last' = Outcome("triggerOutboundCall", 0, NoStr, "Failed")
            /\ UNCHANGED <<calls, nextCallId>>
  /\ trig' = [trig EXCEPT ![p] = TriggerIdle]
  /\ UNCHANGED <<now, callers, nextCallerId, unsaved, hookVars, reapVars,
                 vaultVars>>

\* ------------------------------------------------------------------ DataCleanupJob
\* where: { expiresAt: { lt: new Date() }, isSaved: false }
expiredCallers == {k \in callers : Lt(k.expiresAt, now) /\ ~k.isSaved}

\* DataCleanupJob.run with no step failing: every selected Caller goes, with its Calls
\* and their Transcripts, Extractions and Recordings
DataCleanupJob_run ==
  /\ callers' = callers \ expiredCallers
  /\ calls' = {c \in calls : ~\E k \in expiredCallers : c.callerId = k.id}
  /\ transcripts' = {x \in transcripts : \E c \in calls' : c.id = x.callId}
  /\ extractions' = {x \in extractions : \E c \in calls' : c.id = x.callId}
  /\ recordings' = {x \in recordings : \E c \in calls' : c.id = x.callId}
  /\ unsaved' = {u \in unsaved : ~\E k \in expiredCallers : u.id = k.id}
  /\ last' = Outcome("run", Cardinality(expiredCallers), NoStr, "ok")
  /\ UNCHANGED <<now, nextCallerId, nextCallId, trig, hookVars, sweep, preview, vaultVars>>

\* ---- run(), one database call at a time
\* the POST /cleanup/run requests, each with at most one run() in flight
Runs == {"r1", "r2"}

\* the five tables a sweep deletes from
Store ==
  [callers |-> callers, calls |-> calls, transcripts |-> transcripts,
   extractions |-> extractions, recordings |-> recordings]

\* a run() not yet invoked
RunIdle == [pc |-> "idle"]
\* a run() entered: the counters and the errors array as run() declares them, no
\* Caller selected yet; `before` is the history of the tables as run() found them
RunEntered ==
  [pc |-> "idle", queue |-> <<>>, todo |-> <<>>, step |-> "none",
   deletedCallers |-> 0, deletedCalls |-> 0, deletedTranscripts |-> 0,
   deletedExtractions |-> 0, errors |-> <<>>, success |-> FALSE, before |-> Store]

\* the orders a query without orderBy can return the rows S in
RECURSIVE Orders(_)
Orders(S) ==
  IF S = {} THEN {<<>>}
  ELSE UNION {{<<x>> \o q : q \in Orders(S \ {x})} : x \in S}

\* include: { calls: { select: { id: true } } }
included(k) == [id |-> k.id, calls |-> {c.id : c \in {c \in calls : c.callerId = k.id}}]
\* the orders the calls of the first Caller of q can be looped over
CallOrders(q) == IF q = <<>> THEN {<<>>} ELSE Orders(Head(q).calls)

\* the loop body starting with call.deleteMany, before the rows of the Calls
turnTo_callsFirst(s, q, t) ==
  IF q = <<>>
    THEN [s EXCEPT !.pc = "done", !.queue = <<>>, !.todo = <<>>, !.step = "none",
                   !.success = TRUE]
    ELSE [s EXCEPT !.pc = "loop", !.queue = q, !.todo = t, !.step = "calls"]

\* the for loop turns to the Callers q, the first one's calls in the order t; with no
\* Caller left run() returns success: true
turnTo(s, q, t) ==
  IF q = <<>>
    THEN [s EXCEPT !.pc = "done", !.queue = <<>>, !.todo = <<>>, !.step = "none",
                   !.success = TRUE]
    ELSE [s EXCEPT !.pc = "loop", !.queue = q, !.todo = t,
                   !.step = IF t = <<>> THEN "calls" ELSE "transcript"]

\* caught with the first failure ending the whole sweep
caught_abort(s, t) ==
  [s EXCEPT !.errors = Append(@, Head(s.queue).id), !.pc = "done", !.queue = <<>>,
            !.todo = <<>>, !.step = "none", !.success = FALSE]

\* the per-caller catch: the error is pushed, the loop goes on with the next Caller
caught(s, t) ==
  turnTo([s EXCEPT !.errors = Append(@, Head(s.queue).id)], Tail(s.queue), t)

\* the initial findMany succeeds
run_start(r) ==
  /\ sweep[r].pc = "idle"
  /\ \E q \in Orders({included(k) : k \in expiredCallers}) :
       \E t \in CallOrders(q) :
         sweep' = [sweep EXCEPT ![r] = turnTo(RunEntered, q, t)]
  /\ UNCHANGED <<now, callers, calls, nextCallerId, nextCallId, last, trig, unsaved,
                 hookVars, transcripts, extractions, recordings, preview, vaultVars>>

\* the initial findMany throws: the outer catch pushes "Fatal error" (0 in `errors`)
\* and returns success: false
run_fatal(r) ==
  /\ sweep[r].pc = "idle"
  /\ sweep' = [sweep EXCEPT ![r] = [RunEntered EXCEPT !.pc = "done", !.errors = <<0>>]]
  /\ UNCHANGED <<now, callers, calls, nextCallerId, nextCallId, last, trig, unsaved,
                 hookVars, transcripts, extractions, recordings, preview, vaultVars>>

\* deleteMany with no where: every row of the table
rowsOf_anyCall(table, callId) == table

\* the rows of a child table that deleteMany({ where: { callId } }) removes
rowsOf(table, callId) == {x \in table : x.callId = callId}

\* where: { callerId: caller.id }
callsOfCaller(id) == {c \in calls : c.callerId = id}
\* the Transcript, Extraction and Recording rows whose callId names one of the Calls C
referencing(C) ==
  {x \in transcripts \cup extractions \cup recordings : \E c \in C : x.callId = c.id}

\* a delete that the foreign keys never stop or extend
referentialActions_none(rows) == {"None"}

\* what the foreign key of a relation does to a delete of rows that `rows` still
\* reference: the delete throws (Restrict), or takes the referencing rows with it
\* (Cascade); with no referencing row the delete just happens
referentialActions(rows) == IF rows = {} THEN {"None"} ELSE {"Restrict", "Cascade"}

\* the rows a delete of the Calls C takes with it
cascaded(act, C) == IF act = "Cascade" THEN referencing(C) ELSE {}

\* the database call the loop is at; a delete of rows still referenced ends as the
\* relation's foreign key decides
run_step(r) ==
  LET s == sweep[r]
      id == Head(s.queue).id
  IN
  /\ s.pc = "loop"
  /\ CASE s.step = "transcript" ->
            /\ transcripts' = transcripts \ rowsOf(transcripts, Head(s.todo))
            /\ sweep' = [sweep EXCEPT ![r] =
                 [s EXCEPT !.deletedTranscripts =
                             @ + Cardinality(rowsOf(transcripts, Head(s.todo))),
                           !.step = "extraction"]]
            /\ UNCHANGED <<callers, calls, extractions, recordings, unsaved>>
       [] s.step = "extraction" ->
            /\ extractions' = extractions \ rowsOf(extractions, Head(s.todo))
            /\ sweep' = [sweep EXCEPT ![r] =
                 [s EXCEPT !.deletedExtractions =
                             @ + Cardinality(rowsOf(extractions, Head(s.todo))),
                           !.step = "recording"]]
            /\ UNCHANGED <<callers, calls, transcripts, recordings, unsaved>>
       [] s.step = "recording" ->
            /\ recordings' = recordings \ rowsOf(recordings, Head(s.todo))
            /\ sweep' = [sweep EXCEPT ![r] =
                 [s EXCEPT !.todo = Tail(@),
                           !.step = IF Tail(s.todo) = <<>> THEN "calls"
                                    ELSE "transcript"]]
            /\ UNCHANGED <<callers, calls, transcripts, extractions, unsaved>>
       [] s.step = "calls" ->
            \E act \in referentialActions(referencing(callsOfCaller(id))) :
              IF act = "Restrict"
                THEN /\ \E t \in CallOrders(Tail(s.queue)) :
                          sweep' = [sweep EXCEPT ![r] = caught(s, t)]
                     /\ UNCHANGED <<callers, calls, transcripts, extractions, recordings,
                                    unsaved>>
                ELSE /\ calls' = calls \ callsOfCaller(id)
                     /\ transcripts' = transcripts \ cascaded(act, callsOfCaller(id))
                     /\ extractions' = extractions \ cascaded(act, callsOfCaller(id))
                     /\ recordings' = recordings \ cascaded(act, callsOfCaller(id))
                     /\ sweep' = [sweep EXCEPT ![r] =
                          [s EXCEPT !.deletedCalls = @ + Cardinality(callsOfCaller(id)),
                                    !.step = "caller"]]
                     /\ UNCHANGED <<callers, unsaved>>
       [] s.step = "caller" ->
            \E t \in CallOrders(Tail(s.queue)) :
              \E act \in referentialActions(callsOfCaller(id)) :
                \E below \in referentialActions(referencing(callsOfCaller(id))) :
                  IF ~CallerExists(id) \/ "Restrict" \in {act, below}
                    THEN /\ sweep' = [sweep EXCEPT ![r] = caught(s, t)]
                         /\ UNCHANGED <<callers, calls, transcripts, extractions,
                                        recordings, unsaved>>
                    ELSE /\ sweep' = [sweep EXCEPT ![r] =
                              turnTo([s EXCEPT !.deletedCallers = @ + 1], Tail(s.queue), t)]
                         /\ callers' = {k \in callers : k.id # id}
                         /\ unsaved' = {u \in unsaved : u.id # id}
                         /\ calls' = IF act = "Cascade" THEN calls \ callsOfCaller(id)
                                     ELSE calls
                         /\ transcripts' = transcripts \ cascaded(below, calls \ calls')
                         /\ extractions' = extractions \ cascaded(below, calls \ calls')
                         /\ recordings' = recordings \ cascaded(below, calls \ calls')
  /\ UNCHANGED <<now, nextCallerId, nextCallId, last, trig, hookVars, preview, vaultVars>>

\* the database call the loop is at throws
run_fail(r) ==
  /\ sweep[r].pc = "loop"
  /\ \E t \in CallOrders(Tail(sweep[r].queue)) :
       sweep' = [sweep EXCEPT ![r] = caught(sweep[r], t)]
  /\ UNCHANGED <<now, callers, calls, nextCallerId, nextCallId, last, trig, unsaved,
                 hookVars, transcripts, extractions, recordings, preview, vaultVars>>

\* ---- preview()
\* `take: 100` of preview's findMany: PreviewLimit stands for the 100
PreviewLimit == 1

\* preview listing every unexpired or saved Caller too
previewWhere_all == callers

\* preview's where: { expiresAt: { lt: new Date() }, isSaved: false }
previewWhere == {k \in callers : Lt(k.expiresAt, now) /\ ~k.isSaved}

\* what preview() returns: wouldDelete = callers.length, and of each Caller found its
\* id and _count.calls; `n` is the parity of the number of previews made
Previewed(S) ==
  [wouldDelete |-> Cardinality(S),
   callers |-> {[id |-> k.id, totalCalls |-> Cardinality({c \in calls : c.callerId = k.id})] :
                  k \in S},
   n |-> 1 - preview.n]

\* GET /cleanup/preview: one findMany that returns at most PreviewLimit rows
DataCleanupJob_preview ==
  /\ \E S \in SUBSET previewWhere :
       /\ Cardinality(S) = IF Cardinality(previewWhere) > PreviewLimit THEN PreviewLimit
                           ELSE Cardinality(previewWhere)
       /\ preview' = Previewed(S)
  /\ UNCHANGED <<now, callers, calls, nextCallerId, nextCallId, last, trig, unsaved,
                 hookVars, transcripts, extractions, recordings, sweep, vaultVars>>

\* ------------------------------------------------------------------ InternalCallController
\* most rows a child table holds while rows are being saved
MaxRows == 2
\* a Transcript, Extraction or Recording row of a Call
childRow(id, callId) == [id |-> id, callId |-> callId]
\* the uuid of a new row: one that no stored row of the table has
freshRowId(table) == CHOOSE i \in 1..MaxRows : ~\E x \in table : x.id = i

\* outcome of prisma.transcript.create / prisma.extraction.create: callId references a
\* Call row
saveOutcome(callId) == IF \E c \in calls : c.id = callId THEN "ok" ELSE "ForeignKey"

\* POST /calls/:callId/transcript: 201 with the row, or the error handed to next()
saveTranscript(callId) ==
  /\ Cardinality(transcripts) < MaxRows
  /\ transcripts' =
       IF saveOutcome(callId) = "ok"
         THEN transcripts \cup {childRow(freshRowId(transcripts), callId)}
       ELSE transcripts
  /\ UNCHANGED <<now, callers, calls, nextCallerId, nextCallId, last, trig, unsaved,
                 hookVars, extractions, recordings, sweep, preview, vaultVars>>

\* POST /calls/:callId/extraction: 201 with the row, or the error handed to next()
saveExtraction(callId) ==
  /\ Cardinality(extractions) < MaxRows
  /\ extractions' =
       IF saveOutcome(callId) = "ok"
         THEN extractions \cup {childRow(freshRowId(extractions), callId)}
       ELSE extractions
  /\ UNCHANGED <<now, callers, calls, nextCallerId, nextCallId, last, trig, unsaved,
                 hookVars, transcripts, recordings, sweep, preview, vaultVars>>

\* no sweep invoked, no preview made, the child tables empty
ReapIdle ==
  /\ transcripts = {}
  /\ extractions = {}
  /\ recordings = {}
  /\ sweep = [r \in Runs |-> RunIdle]
  /\ preview = [wouldDelete |-> 0, callers |-> {}, n |-> 0]

\* ------------------------------------------------------------------ webhook gateway
\* capacity of the dedup Set: stands for the 1000 of `processedWebhooks.size > 1000`
MaxProcessed == 2
\* timestamp+random dedup keys drawn in a run
MaxRandom == 2

\* an absent signature header
NoSig == <<>>
\* an absent request body: req.body is undefined
Undefined == [defined |-> FALSE, CallSid |-> NoStr, call_id |-> NoStr]

\* request bodies as sent: none, an empty object, a call session id of either carrier,
\* and the first carrier's again with a space after the colon
RawBodies ==
  {NoStr, "{}", "{\"CallSid\":\"c1\"}", "{\"CallSid\": \"c1\"}", "{\"call_id\":\"c2\"}"}

\* express.json(): the raw body parsed into req.body
parseJson(raw) ==
  CASE raw = NoStr -> Undefined
    [] raw = "{}" -> [defined |-> TRUE, CallSid |-> NoStr, call_id |-> NoStr]
    [] raw \in {"{\"CallSid\":\"c1\"}", "{\"CallSid\": \"c1\"}"} ->
         [defined |-> TRUE, CallSid |-> "c1", call_id |-> NoStr]
    [] raw = "{\"call_id\":\"c2\"}" -> [defined |-> TRUE, CallSid |-> NoStr, call_id |-> "c2"]
    [] raw = "{\"CallSid\":\"c1\",\"call_id\":\"c2\"}" ->
         [defined |-> TRUE, CallSid |-> "c1", call_id |-> "c2"]

\* JSON.stringify(req.body): undefined for undefined, else the compact text
stringify(b) ==
  CASE ~b.defined -> "undefined"
    [] b.CallSid # NoStr /\ b.call_id # NoStr ->
         "{\"CallSid\":\"" \o b.CallSid \o "\",\"call_id\":\"" \o b.call_id \o "\"}"
    [] b.CallSid # NoStr -> "{\"CallSid\":\"" \o b.CallSid \o "\"}"
    [] b.call_id # NoStr -> "{\"call_id\":\"" \o b.call_id \o "\"}"
    [] OTHER -> "{}"

\* crypto.createHmac(alg, key).update(msg).digest('base64'): one value per
\* (algorithm, key, message); msg is the sequence of the strings concatenated
hmac(alg, key, msg) == <<alg, key, msg>>

\* ---- deduplicateWebhook
\* deriving the key never throws
dedupThrows_never(req) == FALSE

\* deriving the key throws: no x-webhook-id header and req.body undefined
dedupThrows(req) == ~TruthyStr(req.id) /\ ~parseJson(req.body).defined

\* `${Date.now()}-${Math.random()}`: a key no request had before
randomKey == "random-" \o ToString(nextRandom)

\* the key taken from the payload before the header
webhookId_payloadFirst(req) ==
  IF TruthyStr(parseJson(req.body).CallSid) THEN parseJson(req.body).CallSid
  ELSE IF TruthyStr(parseJson(req.body).call_id) THEN parseJson(req.body).call_id
  ELSE IF TruthyStr(req.id) THEN req.id
  ELSE randomKey

\* webhookId: the header, else body.CallSid, else body.call_id, else a random key
webhookId(req) ==
  IF TruthyStr(req.id) THEN req.id
  ELSE IF TruthyStr(parseJson(req.body).CallSid) THEN parseJson(req.body).CallSid
  ELSE IF TruthyStr(parseJson(req.body).call_id) THEN parseJson(req.body).call_id
  ELSE randomKey

\* the key comes from the random fallback
drawsRandom(req) == ~dedupThrows(req) /\ webhookId(req) = randomKey

\* only the newest key is looked at
isDuplicate_newestOnly(req) ==
  /\ ~dedupThrows(req)
  /\ processedWebhooks # <<>>
  /\ processedWebhooks[Len(processedWebhooks)] = webhookId(req)

\* processedWebhooks.has(webhookId)
isDuplicate(req) ==
  /\ ~dedupThrows(req)
  /\ \E i \in 1..Len(processedWebhooks) : processedWebhooks[i] = webhookId(req)

\* over capacity the key before the new one is deleted instead of the oldest
admitted_evictNewest(set, key) ==
  IF Len(set) + 1 > MaxProcessed THEN Append(SubSeq(set, 1, Len(set) - 1), key)
  ELSE Append(set, key)

\* processedWebhooks.add(webhookId), then the oldest key deleted when over capacity
admitted(set, key) ==
  IF Len(set) + 1 > MaxProcessed THEN Tail(Append(set, key)) ELSE Append(set, key)

\* a duplicate let through like a new key
dedupOutcome_forward(req) ==
  IF dedupThrows(req) THEN "error" ELSE "admitted"

\* what deduplicateWebhook does: "error" (caught, next()), "duplicate" (200), "admitted" (next())
dedupOutcome(req) ==
  IF dedupThrows(req) THEN "error" ELSE IF isDuplicate(req) THEN "duplicate" ELSE "admitted"

\* ---- validateExotelWebhook, validatePlivoWebhook
\* a middleware's verdict: the HTTP response it sends (status 0: none), whether it
\* calls next(), whether it computed an HMAC
Verdict(status, message, next, computed) ==
  [status |-> status, message |-> message, next |-> next, computed |-> computed]

validateExotelWebhook(req) ==
  IF req.signature = NoSig THEN Verdict(401, "Missing Exotel signature", FALSE, FALSE)
  ELSE IF ~TruthyStr(env.EXOTEL_WEBHOOK_SECRET)
    THEN IF env.NODE_ENV = "development" THEN Verdict(0, NoStr, TRUE, FALSE)
         ELSE Verdict(500, "Webhook secret not configured", FALSE, FALSE)
  ELSE IF ~parseJson(req.body).defined
    THEN Verdict(500, "Webhook validation failed", FALSE, FALSE)
  ELSE IF req.signature #
            hmac("sha1", env.EXOTEL_WEBHOOK_SECRET, <<stringify(parseJson(req.body))>>)
    THEN Verdict(401, "Invalid Exotel signature", FALSE, TRUE)
  ELSE Verdict(0, NoStr, TRUE, TRUE)

\* the nonce header not required before the HMAC
validatePlivoWebhook_noNonceCheck(req) ==
  IF req.signature = NoSig
    THEN Verdict(401, "Missing Plivo signature headers", FALSE, FALSE)
  ELSE IF ~TruthyStr(env.PLIVO_WEBHOOK_SECRET)
    THEN IF env.NODE_ENV = "development" THEN Verdict(0, NoStr, TRUE, FALSE)
         ELSE Verdict(500, "Webhook secret not configured", FALSE, FALSE)
  ELSE IF req.signature #
            hmac("sha256", env.PLIVO_WEBHOOK_SECRET,
                 <<req.nonce, stringify(parseJson(req.body))>>)
    THEN Verdict(401, "Invalid Plivo signature", FALSE, TRUE)
  ELSE Verdict(0, NoStr, TRUE, TRUE)

validatePlivoWebhook(req) ==
  IF req.signature = NoSig \/ ~TruthyStr(req.nonce)
    THEN Verdict(401, "Missing Plivo signature headers", FALSE, FALSE)
  ELSE IF ~TruthyStr(env.PLIVO_WEBHOOK_SECRET)
    THEN IF env.NODE_ENV = "development" THEN Verdict(0, NoStr, TRUE, FALSE)
         ELSE Verdict(500, "Webhook secret not configured", FALSE, FALSE)
  ELSE IF req.signature #
            hmac("sha256", env.PLIVO_WEBHOOK_SECRET,
                 <<req.nonce, stringify(parseJson(req.body))>>)
    THEN Verdict(401, "Invalid Plivo signature", FALSE, TRUE)
  ELSE Verdict(0, NoStr, TRUE, TRUE)

validate(provider, req) ==
  IF provider = "exotel" THEN validateExotelWebhook(req) ELSE validatePlivoWebhook(req)

\* ---- the routes
NoRequest ==
  [provider |-> NoStr, id |-> NoStr, body |-> NoStr, signature |-> NoSig, nonce |-> NoStr]
\* what `response` records: the dedup key and outcome, the HTTP response a middleware
\* sent (status 0: none), whether verification ran and computed an HMAC, whether the
\* controller's handler was invoked, the parity of the requests received
Handling(key, dedup, v, verified) ==
  [key |-> key, dedup |-> dedup, status |-> v.status, message |-> v.message,
   verified |-> verified, computed |-> v.computed, handled |-> v.next,
   n |-> 1 - response.n]

\* router.post(path, deduplicateWebhook, validate<Provider>Webhook, controller.handle...)
webhook(provider, req) ==
  /\ drawsRandom(req) => nextRandom <= MaxRandom
  /\ request' = [req EXCEPT !.provider = provider]
  /\ nextRandom' = IF drawsRandom(req) THEN nextRandom + 1 ELSE nextRandom
  /\ processedWebhooks' =
       IF dedupOutcome(req) = "admitted" THEN admitted(processedWebhooks, webhookId(req))
       ELSE processedWebhooks
  /\ response' =
       IF dedupOutcome(req) = "duplicate"
         THEN Handling(webhookId(req), "duplicate",
                       Verdict(200, "Duplicate webhook ignored", FALSE, FALSE), FALSE)
         ELSE Handling(IF dedupThrows(req) THEN NoStr ELSE webhookId(req),
                       dedupOutcome(req), validate(provider, req), TRUE)
  /\ UNCHANGED <<now, callers, calls, nextCallerId, nextCallId, last, trig, unsaved, env,
                 reapVars, vaultVars>>

\* the validation middleware of a provider on its own
verify(provider, req) ==
  /\ request' = [req EXCEPT !.provider = provider]
  /\ response' = Handling(NoStr, "none", validate(provider, req), TRUE)
  /\ UNCHANGED <<now, callers, calls, nextCallerId, nextCallId, last, trig, unsaved,
                 env, processedWebhooks, nextRandom, reapVars, vaultVars>>

\* a production deployment with both secrets set
ProductionEnv ==
  [EXOTEL_WEBHOOK_SECRET |-> "k1", PLIVO_WEBHOOK_SECRET |-> "k1", NODE_ENV |-> "production"]
\* the deployments: each secret set or not, development or production
Envs ==
  [EXOTEL_WEBHOOK_SECRET : {NoStr, "k1"}, PLIVO_WEBHOOK_SECRET : {NoStr, "k1"},
   NODE_ENV : {"development", "production"}]

\* no webhook received yet
HookStart ==
  /\ processedWebhooks = <<>>
  /\ nextRandom = 1
  /\ request = NoRequest
  /\ response = [key |-> NoStr, dedup |-> "none", status |-> 0, message |-> NoStr,
                 verified |-> FALSE, computed |-> FALSE, handled |-> FALSE, n |-> 0]
HookIdle == env = ProductionEnv /\ HookStart

\* x-webhook-id headers sent: none, or an event id
WebhookIds == {NoStr, "w1"}
\* x-plivo-signature-nonce headers sent
Nonces == {NoStr, "n1", "n2"}
\* secrets a sender signs with: the deployment's, or another
SigningKeys == {"k1", "k9"}
\* signature headers sent: none, or an HMAC of either algorithm under a signing key
\* over a body, with or without a nonce in front
Signatures ==
  {NoSig} \cup
  {hmac("sha1", k, <<stringify(parseJson(b))>>) : k \in SigningKeys, b \in RawBodies} \cup
  {hmac("sha256", k, <<nc, stringify(parseJson(b))>>) :
     k \in SigningKeys, nc \in Nonces \ {NoStr}, b \in RawBodies}
\* the requests a provider's route can receive
Requests ==
  [provider : {NoStr}, id : WebhookIds, body : RawBodies, signature : Signatures,
   nonce : Nonces]

\* ------------------------------------------------------------------ EncryptionUtil
\* most IVs drawn
MaxIv == 2
\* crypto.randomBytes(16): the length of an IV in bytes
IvBytes == 16
\* this.key: the SHA-256 digest of MASTER_ENCRYPTION_KEY
Key == "sha256(master)"

\* the IV the next crypto.randomBytes(16) returns: 16 bytes not drawn before
randomBytes == <<"iv", nextIv, IvBytes>>
\* cipher.update(data) + cipher.final(): as many bytes as the plaintext has, so none
\* for the empty string
gcmCiphertext(key, iv, data) == IF data = "" THEN <<>> ELSE <<"ct", key, iv, data>>
\* cipher.getAuthTag(): one tag per key, IV and ciphertext
gcmTag(key, iv, ct) == <<"tag", key, iv, ct>>
\* bytes with one of them changed
flipped(bytes) == <<"flipped", bytes>>

\* buf.toString('base64'): the text of the bytes; `junk` tells whether the text holds
\* white space besides
base64(bytes) == [bytes |-> bytes, junk |-> FALSE]
\* Buffer.from(text, 'base64'): white space in the text is skipped
fromBase64(text) == text.bytes
\* the empty string
EmptyText == base64(<<>>)
\* a text with white space added
spaced(text) == [text EXCEPT !.junk = TRUE]

\* what an EncryptionUtil call returns or throws
Returned(value) == [result |-> "ok", value |-> value, message |-> NoStr]
Thrown(message) == [result |-> "error", value |-> NoStr, message |-> message]

\* encrypt(data): the token `${iv}:${authTag}:${encrypted}`, held as the segments that
\* split(':') gives back
encrypt(data) ==
  LET iv == randomBytes
      encrypted == gcmCiphertext(Key, iv, data)
  IN <<base64(iv), base64(gcmTag(Key, iv, encrypted)), base64(encrypted)>>

\* const [ivBase64, authTagBase64, encrypted] = encryptedData.split(':'): the i-th
\* segment, undefined past the last one
segment(token, i) == IF i <= Len(token) THEN token[i] ELSE EmptyText

\* decrypt(encryptedData): a falsy segment among the first three is a format error;
\* decipher.final() throws unless the tag is the one of this key, IV and ciphertext
decrypt(token) ==
  LET iv == fromBase64(segment(token, 1))
      authTag == fromBase64(segment(token, 2))
      encrypted == fromBase64(segment(token, 3))
  IN IF \E i \in 1..3 : segment(token, i) = EmptyText
       THEN Thrown("Decryption failed: Invalid encrypted data format")
     ELSE IF authTag # gcmTag(Key, iv, encrypted)
       THEN Thrown("Decryption failed: unable to authenticate data")
     ELSE Returned(IF encrypted = <<>> THEN "" ELSE encrypted[4])

\* JSON texts
JsonTexts == RawBodies \ {NoStr}
\* decryptObject(encryptedData): JSON.parse(this.decrypt(encryptedData))
decryptObject(token) ==
  IF decrypt(token).result = "error" THEN [decrypt(token) EXCEPT !.value = Undefined]
  ELSE IF decrypt(token).value \notin JsonTexts
    THEN [Thrown("Unexpected token") EXCEPT !.value = Undefined]
  ELSE [Returned(NoStr) EXCEPT !.value = parseJson(decrypt(token).value)]

\* what `vault` records: the call, the plaintext passed or NoStr, the token passed or
\* returned, how the call ended, and the parity of the number of calls made
Vaulted(op, data, token, out) ==
  [op |-> op, data |-> data, token |-> token, out |-> out, n |-> 1 - vault.n]

EncryptionUtil_encrypt(data) ==
  /\ nextIv <= MaxIv
  /\ issued' = issued \cup
       {[n |-> nextIv, data |-> data, object |-> Undefined, token |-> encrypt(data)]}
  /\ nextIv' = nextIv + 1
  /\ vault' = Vaulted("encrypt", data, encrypt(data), Returned(NoStr))
  /\ UNCHANGED <<now, callers, calls, nextCallerId, nextCallId, last, trig, unsaved,
                 hookVars, reapVars>>

EncryptionUtil_encryptObject(data) ==
  /\ nextIv <= MaxIv
  /\ issued' = issued \cup
       {[n |-> nextIv, data |-> stringify(data), object |-> data,
         token |-> encrypt(stringify(data))]}
  /\ nextIv' = nextIv + 1
  /\ vault' = Vaulted("encryptObject", stringify(data), encrypt(stringify(data)),
                      Returned(NoStr))
  /\ UNCHANGED <<now, callers, calls, nextCallerId, nextCallId, last, trig, unsaved,
                 hookVars, reapVars>>

EncryptionUtil_decrypt(token) ==
  /\ vault' = Vaulted("decrypt", NoStr, token, decrypt(token))
  /\ UNCHANGED <<now, callers, calls, nextCallerId, nextCallId, last, trig, unsaved,
                 hookVars, reapVars, issued, nextIv>>

EncryptionUtil_decryptObject(token) ==
  /\ vault' = Vaulted("decryptObject", NoStr, token, decryptObject(token))
  /\ UNCHANGED <<now, callers, calls, nextCallerId, nextCallId, last, trig, unsaved,
                 hookVars, reapVars, issued, nextIv>>

\* ------------------------------------------------------------------ AgentConfig
\* a providerApiKeys column holding NULL
NoToken == <<>>
\* !encryptedKeys: NULL or the empty string
falsyToken(token) == token \in {NoToken, <<EmptyText>>}

\* decryptApiKeys(encryptedKeys): null for a falsy column, the decrypted object, and
\* null again when decryptObject throws
decryptApiKeys(encryptedKeys) ==
  IF falsyToken(encryptedKeys) THEN Undefined
  ELSE IF decryptObject(encryptedKeys).result = "error" THEN Undefined
  ELSE decryptObject(encryptedKeys).value

\* getConfigByTenantId(tenantId): found tells whether the tenant has a row,
\* providerApiKeys is the row's column
AgentConfigService_getConfigByTenantId(found, providerApiKeys) ==
  /\ vault' = Vaulted("getConfigByTenantId", NoStr, providerApiKeys,
                      IF ~found
                        THEN [Thrown("Agent config not found") EXCEPT !.value = Undefined]
                      ELSE [Returned(NoStr) EXCEPT
                              !.value = decryptApiKeys(providerApiKeys)])
  /\ UNCHANGED <<now, callers, calls, nextCallerId, nextCallId, last, trig, unsaved,
                 hookVars, reapVars, issued, nextIv>>

\* no EncryptionUtil call made yet
VaultIdle ==
  /\ issued = {}
  /\ nextIv = 1
  /\ vault = [op |-> "none", n |-> 0]

\* ------------------------------------------------------------------ call lifecycle
\* summary and sentiment a client sends: neither, or both
Metadata == {<<NoStr, NoStr>>, <<"booked", "POSITIVE">>}
\* durationSecs a client sends: none, zero seconds, half a minute
Durations == {NULL, 0, 30}
\* a Date a client can send: none, or any time up to now
Dates == {NULL} \cup (0..now)
\* the optional data of updateStatus: nothing, a duration, an end time, or both
StatusData ==
  {<<d, NULL>> : d \in Durations} \cup {<<NULL, e>> : e \in Dates} \cup {<<30, now>>}
\* Call ids a client can name: the ids issued so far and one that never was
RequestIds == 1..nextCallId

\* a store holding one unsaved Caller of tenant t1 whose retention ends at time 0
Init ==
  /\ now = 0
  /\ callers = {[id |-> 1, tenantId |-> "t1", phoneNumber |-> "+91A", isSaved |-> FALSE,
                 expiresAt |-> 0, totalCalls |-> 1,
                 lastCallAt |-> NULL]}
  /\ calls = {}
  /\ nextCallerId = 2
  /\ nextCallId = 1
  /\ last = [op |-> "init", id |-> 0, status |-> NoStr, result |-> "ok", n |-> 0]
  /\ trig = [p \in Procs |-> TriggerIdle]
  /\ unsaved = {}
  /\ HookIdle
  /\ ReapIdle
  /\ VaultIdle

Next ==
  \/ \E e \in CarrierIds, k \in CallerIds :
       /\ nextCallId <= MaxLifecycleCalls
       /\ CallService_create(e, "t1", "pn1", k, "INBOUND", "RINGING")
  \/ \E id \in RequestIds, s \in Statuses \cup {NoStr}, m \in Metadata :
       CallService_update(id, "t1", s, m[1], m[2])
  \/ \E id \in RequestIds, s \in Statuses, x \in StatusData :
       CallService_updateStatus(id, s, x[1], x[2])
  \/ \E id \in RequestIds : CallService_delete(id, "t1")
  \/ \E id \in RequestIds, m \in Metadata : completeCall(id, m[1], m[2])
  \/ \E id \in RequestIds : transferCall(id)
  \/ DataCleanupJob_run
  \/ Tick

Spec == Init /\ [][Next]_vars

\* ------------------------------------------------------------------ tenancy
\* the tenant whose requests are followed
Visitor == "t2"

\* Calls come in for both tenants; the Visitor updates and deletes Calls by id
NextTenancy ==
  \/ \E e \in CarrierIds, t \in Tenants :
       /\ nextCallId <= MaxLifecycleCalls
       /\ CallService_create(e, t, "pn1", 1, "INBOUND", "RINGING")
  \/ \E id \in RequestIds, s \in Statuses \cup {NoStr}, m \in Metadata :
       CallService_update(id, Visitor, s, m[1], m[2])
  \/ \E id \in RequestIds : CallService_delete(id, Visitor)
  \/ Tick

SpecTenancy == Init /\ [][NextTenancy]_vars

\* ------------------------------------------------------------------ caller registry
\* retentionDays a client of unsaveCaller passes: some tenant's dataRetentionDays
RetentionDays == {dataRetentionDays[t] : t \in Tenants}
\* phoneNumberId a client can name: a stored one, or one that is not
TriggerPhoneIds == PhoneNumberIds \cup {"pn9"}
\* Caller ids a client can name: the ids issued so far and one that never was
RequestCallerIds == 1..nextCallerId

\* the store right after migration: no Caller, no Call
InitRegistry ==
  /\ now = 0
  /\ callers = {}
  /\ calls = {}
  /\ nextCallerId = 1
  /\ nextCallId = 1
  /\ last = [op |-> "init", id |-> 0, status |-> NoStr, result |-> "ok", n |-> 0]
  /\ trig = [p \in Procs |-> TriggerIdle]
  /\ unsaved = {}
  /\ HookIdle
  /\ ReapIdle
  /\ VaultIdle

TickDay == TickTo(MaxDay)

\* the CallerRepository and the sweep
NextRegistry ==
  \/ \E t \in Tenants, num \in Numbers :
       \E e \in {NULL, retentionExpiry(t)} : CallerRepository_create(t, num, e)
  \/ \E t \in Tenants, num \in Numbers : findOrCreate(t, num)
  \/ \E id \in RequestCallerIds : updateLastCall(id)
  \/ \E id \in RequestCallerIds : saveCaller(id)
  \/ \E id \in RequestCallerIds, r \in RetentionDays : unsaveCaller(id, r)
  \/ DataCleanupJob_run
  \/ TickDay

SpecRegistry == InitRegistry /\ [][NextRegistry]_vars

\* inbound and outbound call creation, with the sweep
NextOutbound ==
  \/ \E t \in Tenants, num \in Numbers : findOrCreate(t, num)
  \/ \E p \in Procs, t \in Tenants, pn \in TriggerPhoneIds, num \in Numbers :
       trigger_findPhoneNumber(p, t, pn, num)
  \/ \E p \in Procs : trigger_findCaller(p)
  \/ \E p \in Procs : trigger_createCaller(p)
  \/ \E p \in Procs : trigger_createCall(p)
  \/ \E e \in CarrierIds, k \in RequestCallerIds :
       CallService_create(e, "t1", "pn1", k, "INBOUND", "RINGING")
  \/ DataCleanupJob_run
  \/ TickDay

SpecOutbound == InitRegistry /\ [][NextOutbound]_vars

\* ------------------------------------------------------------------ webhook routes
\* the signature a sender holding `key` puts on a request of the provider
sign(provider, key, nonce, body) ==
  IF provider = "exotel" THEN hmac("sha1", key, <<stringify(parseJson(body))>>)
  ELSE hmac("sha256", key, <<nonce, stringify(parseJson(body))>>)

\* deliveries to a provider's routes: unsigned, signed by the carrier, or signed by a
\* sender with another key; Plivo deliveries carry a nonce
Deliveries(provider) ==
  LET nc == IF provider = "plivo" THEN "n1" ELSE NoStr
  IN UNION {[provider : {NoStr}, id : {i}, body : {b}, nonce : {nc},
             signature : {NoSig, sign(provider, "k1", nc, b), sign(provider, "k9", nc, b)}] :
              i \in WebhookIds, b \in RawBodies}

\* any deployment, nothing stored, no webhook received yet
InitWebhook ==
  /\ now = 0
  /\ callers = {}
  /\ calls = {}
  /\ nextCallerId = 1
  /\ nextCallId = 1
  /\ last = [op |-> "init", id |-> 0, status |-> NoStr, result |-> "ok", n |-> 0]
  /\ trig = [p \in Procs |-> TriggerIdle]
  /\ unsaved = {}
  /\ env \in Envs
  /\ HookStart
  /\ ReapIdle
  /\ VaultIdle

\* the two providers' webhook routes
NextWebhook ==
  \/ \E r \in Deliveries("exotel") : webhook("exotel", r)
  \/ \E r \in Deliveries("plivo") : webhook("plivo", r)

SpecWebhook == InitWebhook /\ [][NextWebhook]_vars

\* the routes of a provider's router
Routes == {"incoming", "status"}
\* bodies of call events: no session id, either carrier's, or both fields at once
CallbackBodies ==
  {"{}", "{\"CallSid\":\"c1\"}", "{\"call_id\":\"c2\"}",
   "{\"CallSid\":\"c1\",\"call_id\":\"c2\"}"}
\* the events of calls as a carrier posts them to /incoming and /status: with or without
\* an x-webhook-id, signed by the carrier or unsigned
Callbacks(provider) ==
  LET nc == IF provider = "plivo" THEN "n1" ELSE NoStr
  IN UNION {[provider : {NoStr}, route : Routes, id : {i}, body : {b}, nonce : {nc},
             signature : {NoSig, sign(provider, "k1", nc, b)}] :
              i \in WebhookIds, b \in CallbackBodies}

\* a production deployment, no webhook received yet
InitCallbacks == InitWebhook /\ env = ProductionEnv

\* the /incoming and /status routes of the two providers behind the one dedup Set
NextCallbacks ==
  \/ \E r \in Callbacks("exotel") : webhook("exotel", r)
  \/ \E r \in Callbacks("plivo") : webhook("plivo", r)

SpecCallbacks == InitCallbacks /\ [][NextCallbacks]_vars

\* requests put to a validation middleware: every body, signature and nonce
Probes(provider) ==
  [provider : {NoStr}, id : {NoStr}, body : RawBodies, signature : Signatures,
   nonce : IF provider = "exotel" THEN {NoStr} ELSE Nonces]

\* the two validation middlewares, each on its own
NextSignature ==
  \/ \E r \in Probes("exotel") : verify("exotel", r)
  \/ \E r \in Probes("plivo") : verify("plivo", r)

SpecSignature == InitWebhook /\ [][NextSignature]_vars

\* ------------------------------------------------------------------ retention sweep
\* a Caller row as CallerRepository.create and saveCaller leave it
storedCaller(id, isSaved, expiresAt) ==
  [id |-> id, tenantId |-> "t1", phoneNumber |-> "+91" \o ToString(id),
   isSaved |-> isSaved, expiresAt |-> expiresAt, totalCalls |-> 1, lastCallAt |-> 0]
\* a finished inbound Call of a Caller
storedCall(id, callerId) ==
  [newCall(<<"carrier", id>>, "t1", "pn1", callerId, "INBOUND", "COMPLETED")
     EXCEPT !.id = id]

\* a day into operation: Caller 1 is unsaved and past its expiry; Caller 2 is that too,
\* or unsaved and not yet expired, or saved; Call 1 is Caller 1's, Call 2 either's;
\* the calls have transcripts, extractions and recordings or have none
InitReaper ==
  /\ now = 1
  /\ \E k \in {storedCaller(2, FALSE, 0), storedCaller(2, FALSE, 2),
               storedCaller(2, TRUE, NULL)} :
       callers = {storedCaller(1, FALSE, 0), k}
  /\ nextCallerId = 3
  /\ nextCallId = 3
  /\ \E owner \in {1, 2} : calls = {storedCall(1, 1), storedCall(2, owner)}
  /\ last = [op |-> "init", id |-> 0, status |-> NoStr, result |-> "ok", n |-> 0]
  /\ trig = [p \in Procs |-> TriggerIdle]
  /\ unsaved = {}
  /\ HookIdle
  /\ transcripts \in {{}, {childRow(1, 1), childRow(2, 1), childRow(3, 2)}}
  /\ extractions = {childRow(1, 1), childRow(2, 2)}
  /\ recordings = {childRow(1, 1), childRow(2, 2)}
  /\ sweep = [r \in Runs |-> RunIdle]
  /\ preview = [wouldDelete |-> 0, callers |-> {}, n |-> 0]
  /\ VaultIdle

\* one sweep, step by step, and callers being saved meanwhile
NextReaper ==
  \/ run_start("r1")
  \/ run_fatal("r1")
  \/ run_step("r1")
  \/ run_fail("r1")
  \/ \E id \in CallerIds : saveCaller(id)

SpecReaper == InitReaper /\ [][NextReaper]_vars

\* POST /cleanup/run requested twice
NextOverlap ==
  \/ \E r \in Runs : run_start(r)
  \/ \E r \in Runs : run_fatal(r)
  \/ \E r \in Runs : run_step(r)
  \/ \E r \in Runs : run_fail(r)

SpecOverlap == InitReaper /\ [][NextOverlap]_vars

\* one expired Caller with a finished Call, its Transcript, Extractions and Recording
InitIntegrity ==
  /\ now = 1
  /\ callers = {[storedCaller(1, FALSE, 0) EXCEPT !.phoneNumber = "+91A"]}
  /\ nextCallerId = 2
  /\ nextCallId = 2
  /\ calls = {storedCall(1, 1)}
  /\ last = [op |-> "init", id |-> 0, status |-> NoStr, result |-> "ok", n |-> 0]
  /\ trig = [p \in Procs |-> TriggerIdle]
  /\ unsaved = {}
  /\ HookIdle
  /\ transcripts = {childRow(1, 1)}
  /\ extractions = {childRow(i, 1) : i \in 1..MaxRows}
  /\ recordings = {childRow(1, 1)}
  /\ sweep = [r \in Runs |-> RunIdle]
  /\ preview = [wouldDelete |-> 0, callers |-> {}, n |-> 0]
  /\ VaultIdle

\* run() r is inside its for loop: the Callers are selected, the last one not yet done
sweeping(r) == sweep[r].pc = "loop"

\* one sweep, step by step, with no failure but the foreign keys', and the requests that
\* arrive while it is in its loop: calls created and triggered, Transcripts and
\* Extractions saved
NextIntegrity ==
  \/ run_start("r1")
  \/ run_step("r1")
  \/ /\ sweeping("r1")
     /\ CallService_create(<<"carrier", 2>>, "t1", "pn1", 1, "INBOUND", "RINGING")
  \/ /\ sweeping("r1")
     /\ \E num \in Numbers : trigger_findPhoneNumber("p1", "t1", "pn1", num)
  \/ trigger_findCaller("p1")
  \/ trigger_createCaller("p1")
  \/ trigger_createCall("p1")
  \/ sweeping("r1") /\ \E id \in 1..MaxCallId : saveTranscript(id)
  \/ sweeping("r1") /\ \E id \in 1..MaxCallId : saveExtraction(id)

SpecIntegrity == InitIntegrity /\ [][NextIntegrity]_vars

\* the preview, with callers being saved and swept between previews
NextPreview ==
  \/ DataCleanupJob_preview
  \/ \E id \in CallerIds : saveCaller(id)
  \/ DataCleanupJob_run

SpecPreview == InitReaper /\ [][NextPreview]_vars

\* ------------------------------------------------------------------ encryption
\* strings passed to encrypt: the empty string, an API key, JSON texts
Plaintexts == {"", "sk-1"}
\* objects passed to encryptObject
Objects == {parseJson(b) : b \in JsonTexts}

\* the tokens made from an issued token by changing one segment's bytes, by adding
\* white space to a segment, by adding or dropping a segment, or by emptying one
Altered(token) ==
  {[token EXCEPT ![i] = base64(flipped(fromBase64(@)))] : i \in 1..3} \cup
  {[token EXCEPT ![i] = spaced(@)] : i \in 1..3} \cup
  {[token EXCEPT ![i] = EmptyText] : i \in 1..3} \cup
  {token \o <<base64(<<"raw">>)>>, SubSeq(token, 1, 2)}
\* the tokens with the ciphertext segment of another issued token
Spliced == {[e.token EXCEPT ![3] = f.token[3]] : e \in issued, f \in issued}
\* the strings passed to decrypt: issued tokens, changed ones, a string without ':',
\* the empty string
Presented ==
  {e.token : e \in issued} \cup UNION {Altered(e.token) : e \in issued} \cup Spliced \cup
  {<<base64(<<"raw">>)>>, <<EmptyText>>}

InitVault ==
  /\ now = 0
  /\ callers = {}
  /\ calls = {}
  /\ nextCallerId = 1
  /\ nextCallId = 1
  /\ last = [op |-> "init", id |-> 0, status |-> NoStr, result |-> "ok", n |-> 0]
  /\ trig = [p \in Procs |-> TriggerIdle]
  /\ unsaved = {}
  /\ HookIdle
  /\ ReapIdle
  /\ VaultIdle

NextVault ==
  \/ \E x \in Plaintexts : EncryptionUtil_encrypt(x)
  \/ \E x \in Objects : EncryptionUtil_encryptObject(x)
  \/ \E t \in Presented : EncryptionUtil_decrypt(t)
  \/ \E t \in Presented : EncryptionUtil_decryptObject(t)
  \/ \E t \in Presented \cup {NoToken} : AgentConfigService_getConfigByTenantId(TRUE, t)
  \/ AgentConfigService_getConfigByTenantId(FALSE, NoToken)

SpecVault == InitVault /\ [][NextVault]_vars

\* ------------------------------------------------------------------ claims: call lifecycle
\* the four fields of the lifecycle agree on rows c and d
SameLifecycle(c, d) ==
  /\ d.status = c.status
  /\ d.answeredAt = c.answeredAt
  /\ d.endedAt = c.endedAt
  /\ d.durationSecs = c.durationSecs

\* a step that is one of the four mutating operations on Call id
MutatingOp(id) ==
  \/ \E s \in Statuses, x \in StatusData : CallService_updateStatus(id, s, x[1], x[2])
  \/ \E s \in Statuses \cup {NoStr}, m \in Metadata : CallService_update(id, "t1", s, m[1], m[2])
  \/ \E m \in Metadata : completeCall(id, m[1], m[2])
  \/ transferCall(id)

\* C1: once a Call is terminal, every later updateStatus, update, completeCall or
\* transferCall on it is accepted and leaves its status, answeredAt, endedAt and
\* durationSecs as they are: a terminal Call that is still stored after a step has
\* the same four fields as before the step.
C1_TerminalFrozen ==
  [][\A c \in calls : c.status \in Terminal =>
       /\ MutatingOp(c.id) => last'.result = "ok"
       /\ \A d \in calls' : d.id = c.id => SameLifecycle(c, d)]_vars

\* C2: a second updateStatus with the same terminal status (and a second complete or
\* transfer request) right after the first leaves endedAt and answeredAt as the first
\* left them.
C2_TerminalIdempotent ==
  [][\A c \in calls :
       (/\ last.id = c.id /\ last.result = "ok"
        /\ \/ /\ last.op = "updateStatus" /\ last.status \in Terminal
              /\ CallService_updateStatus(c.id, last.status, NULL, NULL)
           \/ /\ last.op = "completeCall"
              /\ \E m \in Metadata : completeCall(c.id, m[1], m[2])
           \/ /\ last.op = "transferCall"
              /\ transferCall(c.id))
       => \E d \in calls' : d.id = c.id /\ d.endedAt = c.endedAt
                                        /\ d.answeredAt = c.answeredAt]_vars

\* C3: no stored Call has status COMPLETED or TRANSFERRED with endedAt unset.
C3_EndedAtSet ==
  \A c \in calls : c.status \in {"COMPLETED", "TRANSFERRED"} => c.endedAt # NULL

\* C4: updateStatus(id, IN_PROGRESS) leaves an answeredAt that is already set as it is.
C4_AnsweredAtOnce ==
  [][\A c \in calls :
       (/\ c.answeredAt # NULL
        /\ \E x \in StatusData : CallService_updateStatus(c.id, "IN_PROGRESS", x[1], x[2]))
       => \E c2 \in calls' : c2.id = c.id /\ c2.answeredAt = c.answeredAt]_vars

\* C5: after updateStatus with durationSecs = d supplied the Call's durationSecs is d,
\* for every d including 0; with none supplied it is unchanged.
C5_DurationVerbatim ==
  [][\A c \in calls : \A s \in Statuses, x \in StatusData :
       CallService_updateStatus(c.id, s, x[1], x[2])
       => \E c2 \in calls' : /\ c2.id = c.id
                             /\ c2.durationSecs = IF x[1] # NULL THEN x[1]
                                                   ELSE c.durationSecs]_vars

\* the step is operation op finishing
Did(op) == last'.n # last.n /\ last'.op = op

\* C7: updateStatus succeeds, with the status stored, for every status when the Call
\* exists; when it does not exist it fails with not-found and changes no Call.
C7_UpdateStatusTotal ==
  [][Did("updateStatus") =>
       IF CallExists(last'.id)
         THEN /\ last'.result = "ok"
              /\ \E c2 \in calls' : c2.id = last'.id /\ c2.status = last'.status
              /\ \A c \in calls : c.id # last'.id => c \in calls'
         ELSE /\ last'.result = "NotFound"
              /\ calls' = calls]_vars

\* C7 witness: updateStatus on a Call that was stored and went with its Caller in the
\* sweep ended not-found.
C7_Witness ==
  /\ last.op = "updateStatus" /\ last.result = "NotFound"
  /\ last.id < nextCallId
  /\ callers = {}

\* ------------------------------------------------------------------ claims: ingestion
UniqueExternalId == \A c1 \in calls, c2 \in calls : c1.externalId = c2.externalId => c1 = c2

\* C6: createCall with an externalId a stored Call already has fails with a conflict
\* and adds no row; after every step at most one Call has a given externalId.
C6_DuplicateExternalId ==
  [][/\ UniqueExternalId'
     /\ Did("create") =>
          \A e \in CarrierIds, k \in RequestCallerIds :
            (/\ \E c \in calls : c.externalId = e
             /\ CallService_create(e, "t1", "pn1", k, "INBOUND", "RINGING"))
            => last'.result = "Conflict" /\ calls' = calls]_vars

\* C6 witness: two Calls are stored and a create naming a stored externalId was refused.
C6_Witness ==
  /\ last.op = "create" /\ last.result = "Conflict"
  /\ Cardinality(calls) = 2

\* ------------------------------------------------------------------ claims: caller registry
\* C8: for every stored Caller, isSaved is true if and only if expiresAt is null.
C8_SavedIffNoExpiry == \A k \in callers : k.isSaved <=> (k.expiresAt = NULL)

\* C9: while an unsave(callerId, retentionDays) made at time t is in force the Caller
\* is unsaved with expiresAt = t + retentionDays, whatever its lastCallAt and earlier
\* expiresAt, and the sweep selects it exactly when now is after t + retentionDays.
C9_UnsaveReenrolls ==
  \A u \in unsaved :
    \E k \in callers :
      /\ k.id = u.id
      /\ ~k.isSaved
      /\ k.expiresAt = u.at + u.days
      /\ (k \in expiredCallers) <=> (now > u.at + u.days)

\* C9 witness: a Caller unsaved at one time, called at another, is now up for the sweep.
C9_Witness ==
  \E u \in unsaved, k \in expiredCallers :
    k.id = u.id /\ k.lastCallAt # NULL /\ k.lastCallAt # u.at

\* a Caller row as findOrCreate leaves a new one
FreshCaller(k) ==
  /\ k.totalCalls = 1
  /\ ~k.isSaved
  /\ k.expiresAt = now + dataRetentionDays[k.tenantId]

OwnsPhoneNumber(tenantId, phoneNumberId) ==
  phoneNumberId \in PhoneNumberIds /\ PhoneNumbers[phoneNumberId] = tenantId

\* C11: a triggerOutboundCall that found no Caller for (tenantId, toNumber) creates one
\* Caller for that pair with expiresAt = now + the tenant's dataRetentionDays; its call
\* step, when the Caller is still stored and no Call has the generated externalId, ends
\* ok, and an ok ending adds exactly one Call: OUTBOUND, RINGING, externalId
\* outbound-<now>, referencing that Caller and the tenant's own phone number.
C11_TriggerCreates ==
  [][\A p \in Procs :
       /\ (trigger_createCaller(p) /\ callers' # callers) =>
            \E k \in callers' :
              /\ callers' = callers \cup {k} /\ k \notin callers
              /\ k.tenantId = trig[p].tenantId /\ k.phoneNumber = trig[p].toNumber
              /\ k.expiresAt = now + dataRetentionDays[trig[p].tenantId]
              /\ trig'[p].callerId = k.id
       /\ trigger_createCall(p) =>
            /\ (/\ CallerExists(trig[p].callerId)
                /\ ~\E c \in calls : c.externalId = <<"outbound", now>>)
               => last'.result = "ok"
            /\ last'.result = "ok" =>
                 \E c \in calls' :
                   /\ calls' = calls \cup {c} /\ c \notin calls
                   /\ c.id = last'.id
                   /\ c.direction = "OUTBOUND" /\ c.status = "RINGING"
                   /\ c.externalId = <<"outbound", now>>
                   /\ c.callerId = trig[p].callerId /\ CallerExists(c.callerId)
                   /\ c.phoneNumberId = trig[p].phoneNumberId
                   /\ c.tenantId = trig[p].tenantId
                   /\ OwnsPhoneNumber(c.tenantId, c.phoneNumberId)]_vars

\* C11 witness: a triggerOutboundCall has just ended ok with its OUTBOUND RINGING Call,
\* which references a Caller created at this very time.
C11_Witness ==
  /\ last.op = "triggerOutboundCall" /\ last.result = "ok"
  /\ \E c \in calls : \E k \in callers :
       /\ c.id = last.id /\ c.direction = "OUTBOUND" /\ c.status = "RINGING"
       /\ c.externalId = <<"outbound", now>>
       /\ k.id = c.callerId /\ k.expiresAt = now + dataRetentionDays[k.tenantId]
       /\ k.lastCallAt = NULL

\* C12: triggerOutboundCall naming a phoneNumberId that does not exist or belongs to
\* another tenant ends with the not-found outcome, creates no Caller and no Call, and
\* goes no further.
C12_PhoneNotFound ==
  [][\A p \in Procs, t \in Tenants, pn \in TriggerPhoneIds, num \in Numbers :
       (trigger_findPhoneNumber(p, t, pn, num) /\ ~OwnsPhoneNumber(t, pn)) =>
         /\ last'.op = "triggerOutboundCall" /\ last'.result = "PhoneNotFound"
         /\ last'.n # last.n
         /\ callers' = callers /\ calls' = calls /\ trig' = trig]_vars

\* C12 witness: a triggerOutboundCall ended not-found and the store holds no row.
C12_Witness ==
  /\ last.op = "triggerOutboundCall" /\ last.result = "PhoneNotFound"
  /\ callers = {} /\ calls = {}

\* C13: at most one Caller is stored for a (tenantId, phoneNumber).
C13_OneCallerPerNumber ==
  \A k1 \in callers, k2 \in callers :
    (k1.tenantId = k2.tenantId /\ k1.phoneNumber = k2.phoneNumber) => k1 = k2

\* C13 witness: at time 0, with no Call stored, a triggerOutboundCall has failed: its
\* caller.create lost to the Caller another invocation stored for the same number.
C13_Witness ==
  /\ last.op = "triggerOutboundCall" /\ last.result = "Failed"
  /\ now = 0 /\ calls = {}
  /\ \E k \in callers : k.tenantId = "t1"

\* C14: an invocation whose caller.create hits the unique key of (tenantId, phoneNumber)
\* goes on to its call step with the stored Caller of that pair; it does not end there.
C14_ConflictRefetch ==
  [][\A p \in Procs :
       (/\ trigger_createCaller(p)
        /\ findByPhoneNumber(trig[p].toNumber, trig[p].tenantId) # {})
       => /\ trig'[p].pc = "createCall"
          /\ \E k \in findByPhoneNumber(trig[p].toNumber, trig[p].tenantId) :
               trig'[p].callerId = k.id]_vars

\* ------------------------------------------------------------------ claims: webhook gateway
\* the step is a webhook request being received
HookStep == response'.n # response.n

\* key is in the seen set
Seen(set, key) == \E i \in 1..Len(set) : set[i] = key

\* the secret the deployment holds for the request's provider
SecretOf(req) ==
  IF req.provider = "exotel" THEN env.EXOTEL_WEBHOOK_SECRET ELSE env.PLIVO_WEBHOOK_SECRET

C16_NoDoubleAdmit ==
  [][HookStep =>
       /\ \A i \in 1..Len(processedWebhooks'), j \in 1..Len(processedWebhooks') :
            processedWebhooks'[i] = processedWebhooks'[j] => i = j
       /\ Len(processedWebhooks') <= MaxProcessed
       /\ response'.dedup = "admitted" =>
            /\ ~Seen(processedWebhooks, response'.key)
            /\ Seen(processedWebhooks', response'.key)
       /\ (response'.dedup # "error" /\ Seen(processedWebhooks, response'.key)) =>
            response'.dedup = "duplicate"]_vars

\* C16 witness: with the set full, a request deriving a call session key that is in
\* the set was not admitted again.
C16_Witness ==
  /\ request.id = NoStr /\ response.dedup = "duplicate" /\ response.key = "c1"
  /\ Len(processedWebhooks) = MaxProcessed

\* C17: a request with no x-webhook-id header and no body, whose key derivation
\* throws, is passed on to signature verification, gets verification's verdict, and
\* leaves the seen set as it was.
C17_DedupFailOpen ==
  [][(HookStep /\ request'.id = NoStr /\ request'.body = NoStr) =>
       /\ response'.dedup = "error"
       /\ response'.verified
       /\ response'.status = validate(request'.provider, request').status
       /\ response'.handled = validate(request'.provider, request').next
       /\ processedWebhooks' = processedWebhooks /\ nextRandom' = nextRandom]_vars

\* C17 witness: such a request went through verification to the handler while the set,
\* holding a key, stayed as it was.
C17_Witness ==
  /\ request.id = NoStr /\ request.body = NoStr
  /\ response.dedup = "error" /\ response.verified /\ response.handled
  /\ processedWebhooks # <<>>

\* req and other differ in the body alone, the nonce alone or the signature alone
OneChange(req, other) ==
  /\ other.provider = req.provider /\ other.id = req.id
  /\ \/ other.body # req.body /\ other.nonce = req.nonce /\ other.signature = req.signature
     \/ other.body = req.body /\ other.nonce # req.nonce /\ other.signature = req.signature
     \/ other.body = req.body /\ other.nonce = req.nonce /\ other.signature # req.signature

\* C18: with the provider's secret configured, a request passes verification exactly
\* when its signature header is the HMAC under that secret of the provider's signed
\* string (Exotel: sha1 over the serialized body; Plivo: sha256 over nonce + serialized
\* body); and once a request has passed, the request with only its body, only its nonce
\* or only its signature changed gets 401 and does not reach the handler.
C18_SignatureExact ==
  (request.provider # NoStr /\ TruthyStr(SecretOf(request))) =>
    /\ response.handled <=>
         /\ request.provider = "exotel" => parseJson(request.body).defined
         /\ request.signature =
              sign(request.provider, SecretOf(request), request.nonce, request.body)
    /\ response.handled =>
         \A other \in Probes(request.provider) :
           OneChange(request, [other EXCEPT !.provider = request.provider]) =>
             /\ validate(request.provider, other).status = 401
             /\ ~validate(request.provider, other).next

\* C19: with no secret configured for the provider, in development every request
\* goes on to the handler; in any other mode every request gets 500 and does not.
C19_NoSecret ==
  (request.provider # NoStr /\ ~TruthyStr(SecretOf(request))) =>
    IF env.NODE_ENV = "development" THEN response.handled
    ELSE response.status = 500 /\ ~response.handled

\* C20: with the provider's secret configured, a request without the signature header
\* (Plivo: without the signature or the nonce header) gets 401, no HMAC is computed and
\* the handler is not invoked.
C20_MissingSignature ==
  (/\ request.provider # NoStr /\ TruthyStr(SecretOf(request))
   /\ \/ request.signature = NoSig
      \/ request.provider = "plivo" /\ request.nonce = NoStr)
  => response.status = 401 /\ ~response.computed /\ ~response.handled

\* C20 witness: a Plivo request with a signature and no nonce got 401.
C20_Witness ==
  /\ request.provider = "plivo" /\ env.PLIVO_WEBHOOK_SECRET = "k1"
  /\ request.signature # NoSig /\ request.nonce = NoStr
  /\ response.status = 401 /\ ~response.computed

\* ------------------------------------------------------------------ claims: retention sweep
\* the Callers a run() that found the tables as b selects
Eligible(b) == {k \in b.callers : Lt(k.expiresAt, now) /\ ~k.isSaved}
\* the Calls of the Callers K among the calls C
CallsOf(C, K) == {c \in C : \E k \in K : c.callerId = k.id}
\* the rows of a child table that belong to the Calls C
RowsOf(table, C) == {x \in table : \E c \in C : x.callId = c.id}
\* run() r has returned with no step failed, no other run() was invoked and no Caller
\* was saved
RanAlone(r) ==
  /\ sweep[r].pc = "done" /\ sweep[r].success /\ sweep[r].errors = <<>>
  /\ \A q \in Runs \ {r} : sweep[q].pc = "idle"
  /\ last.op = "init"

\* C21: a run() with no step failure and no concurrent writer deletes every Caller that
\* was unsaved and expired, all its Calls and all their Transcripts, Extractions and
\* Recordings, deletes no row of any other Caller, and returns counts equal to the
\* numbers of rows removed.
C21_SweepDeletesExactly ==
  \A r \in Runs :
    RanAlone(r) =>
      LET b == sweep[r].before
          gone == CallsOf(b.calls, Eligible(b))
      IN /\ callers = b.callers \ Eligible(b)
         /\ calls = b.calls \ gone
         /\ transcripts = b.transcripts \ RowsOf(b.transcripts, gone)
         /\ extractions = b.extractions \ RowsOf(b.extractions, gone)
         /\ recordings = b.recordings \ RowsOf(b.recordings, gone)
         /\ sweep[r].deletedCallers = Cardinality(Eligible(b))
         /\ sweep[r].deletedCalls = Cardinality(gone)
         /\ sweep[r].deletedTranscripts = Cardinality(RowsOf(b.transcripts, gone))
         /\ sweep[r].deletedExtractions = Cardinality(RowsOf(b.extractions, gone))

\* C21 witness: a run() alone deleted one of two Callers with its Call and the Call's two
\* Transcripts, and the other Caller's Call and Transcript are still stored.
C21_Witness ==
  /\ RanAlone("r1")
  /\ sweep["r1"].deletedCallers = 1 /\ sweep["r1"].deletedTranscripts = 2
  /\ Cardinality(callers) = 1 /\ Cardinality(calls) = 1 /\ Cardinality(transcripts) = 1

\* C22: a Caller is deleted only if at the moment of deletion it is unsaved and expired;
\* a Caller whose save() completed before the delete step is not deleted, also when the
\* run() selected it before the save.
C22_SavedNeverDeleted ==
  [][\A k \in callers :
       (~\E j \in callers' : j.id = k.id) => ~k.isSaved /\ Lt(k.expiresAt, now)]_vars

\* the step of run() r in which a database call of the loop throws
StepFails(r) ==
  /\ sweep[r].pc = "loop"
  /\ sweep'[r].errors # sweep[r].errors

\* C23: the deletion of a Caller is atomic: when a deletion step fails for a Caller, none
\* of the rows that Caller had when the run() began is deleted.
C23_CascadeAtomic ==
  [][\A r \in Runs :
       StepFails(r) =>
         LET b == sweep[r].before
             K == {k \in b.callers : k.id = Head(sweep[r].queue).id}
             mine == CallsOf(b.calls, K)
         IN /\ \A k \in K : \E j \in callers' : j.id = k.id
            /\ mine \subseteq calls'
            /\ RowsOf(b.transcripts, mine) \subseteq transcripts'
            /\ RowsOf(b.extractions, mine) \subseteq extractions'
            /\ RowsOf(b.recordings, mine) \subseteq recordings']_vars

\* C24: a failing deletion step appends one error for its Caller and the sweep goes on
\* with the remaining Callers; run() returns success = false only after a fatal error,
\* and success = true otherwise.
C24_ErrorsContained ==
  [][\A r \in Runs :
       /\ StepFails(r) =>
            /\ sweep'[r].errors = Append(sweep[r].errors, Head(sweep[r].queue).id)
            /\ sweep'[r].queue = Tail(sweep[r].queue)
            /\ sweep'[r].pc = IF Tail(sweep[r].queue) = <<>> THEN "done" ELSE "loop"
       /\ (sweep[r].pc # "done" /\ sweep'[r].pc = "done") =>
            (sweep'[r].success <=> sweep'[r].errors # <<0>>)]_vars

\* C24 witness: a run() returned success = true with one Caller's error in the list and
\* the other Caller deleted.
C24_Witness ==
  /\ sweep["r1"].pc = "done" /\ sweep["r1"].success
  /\ Len(sweep["r1"].errors) = 1 /\ sweep["r1"].deletedCallers = 1

\* C25: run() never overlaps with itself: at no time are two invocations in progress.
C25_NoOverlap == Cardinality({r \in Runs : sweep[r].pc = "loop"}) <= 1

\* the step is a preview()
PreviewStep == preview'.n # preview.n

\* C26: preview() reports wouldDelete = the number of all Callers eligible for deletion,
\* while the sample it lists holds at most PreviewLimit of them, each with the number of
\* its Calls.
C26_PreviewCountsAll ==
  [][PreviewStep =>
       /\ preview'.wouldDelete = Cardinality(expiredCallers)
       /\ Cardinality(preview'.callers) <= PreviewLimit
       /\ \A c \in preview'.callers :
            c.totalCalls = Cardinality({x \in calls : x.callerId = c.id})]_vars

\* C27: preview() changes no stored row, and every Caller it lists is one that a run()
\* invoked right after it would select.
C27_PreviewReadOnly ==
  [][PreviewStep =>
       /\ Store' = Store
       /\ \A c \in preview'.callers : \E k \in expiredCallers' : k.id = c.id]_vars

\* C27 witness: a preview listed a Caller while another Caller, saved, was stored.
C27_Witness ==
  /\ preview.n = 1 /\ preview.callers # {}
  /\ \E k \in callers : k.isSaved /\ ~\E c \in preview.callers : c.id = k.id

\* ------------------------------------------------------------------ claims: encryption
\* the encrypt and encryptObject calls that returned the token
IssuedAs(token) == {e \in issued : e.token = token}

\* C28: for every string x, the empty string included, decrypt(encrypt(x)) = x, and for
\* every JSON-serializable object x, decryptObject(encryptObject(x)) = x.
C28_RoundTrip ==
  /\ vault.op = "decrypt" =>
       \A e \in IssuedAs(vault.token) : vault.out = Returned(e.data)
  /\ vault.op = "decryptObject" =>
       \A e \in IssuedAs(vault.token) :
         e.object.defined => vault.out.result = "ok" /\ vault.out.value = e.object

\* C29: decrypt of a token that no encrypt call returned (a segment altered, or not three
\* non-empty segments) fails with an error instead of returning a value.
C29_TamperRejected ==
  (vault.op = "decrypt" /\ IssuedAs(vault.token) = {}) => vault.out.result = "error"

\* C30: every encrypt call draws a 16-byte IV no other call drew and returns three
\* segments (IV, tag, ciphertext); the tokens of two calls differ, also for the same
\* plaintext, and each decrypts to the plaintext of its call.
C30_FreshIv ==
  \A e \in issued :
    /\ Len(e.token) = 3
    /\ fromBase64(e.token[1])[3] = IvBytes
    /\ \A f \in issued : f.n # e.n => f.token[1] # e.token[1] /\ f.token # e.token
    /\ decrypt(e.token) = Returned(e.data)

\* ------------------------------------------------------------------ claims: call timestamps
\* C40: in every reachable state, a Call with both answeredAt and endedAt set has
\* answeredAt not later than endedAt; and answeredAt is set only by a step that puts the
\* Call in IN_PROGRESS, so a Call whose answeredAt is set has passed through IN_PROGRESS.
C40_AnsweredBeforeEnded ==
  /\ [](\A c \in calls :
          (c.answeredAt # NULL /\ c.endedAt # NULL) => c.answeredAt <= c.endedAt)
  /\ [][\A d \in calls' :
          (d.answeredAt # NULL /\ ~\E c \in calls : c.id = d.id /\ c.answeredAt = d.answeredAt)
            => d.status = "IN_PROGRESS"]_vars

\* ------------------------------------------------------------------ claims: tenancy
\* C32: update(id, tenantId, data) and delete(id, tenantId) by a tenant for which
\* findById(id, tenantId) returns nothing end in a not-found outcome and leave the Call
\* table unchanged.
C32_TenantIsolation ==
  [][((Did("update") \/ Did("delete")) /\ findById(last'.id, Visitor) = {})
       => (last'.result = "NotFound" /\ calls' = calls)]_vars

\* ------------------------------------------------------------------ claims: outbound rollback
\* C39: triggerOutboundCall is all-or-nothing: when an invocation returns success = false
\* after its Call could not be created, no Caller that this invocation created is stored.
C39_TriggerAllOrNothing ==
  [][\A p \in Procs :
       (/\ trig[p].pc = "createCall" /\ trig'[p].pc = "idle"
        /\ Did("triggerOutboundCall") /\ last'.result = "Failed"
        /\ trig[p].created)
         => ~\E k \in callers' : k.id = trig[p].callerId]_vars

\* ------------------------------------------------------------------ claims: dedup keys
\* the call session a request's payload names: CallSid, else call_id, else none
SessionOf(req) ==
  IF req.body \in {"{\"CallSid\":\"c1\"}", "{\"CallSid\":\"c1\",\"call_id\":\"c2\"}"} THEN "c1"
  ELSE IF req.body = "{\"call_id\":\"c2\"}" THEN "c2"
  ELSE NoStr

\* C33: the dedup key of a request is its x-webhook-id header when present, else the
\* payload's CallSid, else its call_id, else a fresh value; so a request whose
\* x-webhook-id is in the seen set is a duplicate whatever its payload, and a request
\* with neither header nor session identifier is never a duplicate.
C33_KeyPriority ==
  [][HookStep =>
       /\ request'.id # NoStr =>
            /\ response'.key = request'.id
            /\ Seen(processedWebhooks, request'.id) => response'.dedup = "duplicate"
       /\ (request'.id = NoStr /\ SessionOf(request') # NoStr) =>
            response'.key = SessionOf(request')
       /\ (request'.id = NoStr /\ SessionOf(request') = NoStr) =>
            /\ response'.dedup = "admitted"
            /\ ~Seen(processedWebhooks, response'.key)
            /\ response'.key \notin {"w1", "c1", "c2"}]_vars

\* C33 witness: a request carrying both an x-webhook-id and a payload with CallSid and
\* call_id was keyed by the header, and one with no header by the CallSid.
C33_Witness ==
  /\ request.body = "{\"CallSid\":\"c1\",\"call_id\":\"c2\"}"
  /\ request.id = "w1" /\ response.key = "w1" /\ response.dedup = "duplicate"
  /\ Seen(processedWebhooks, "c1")

\* C34: after every request the seen set holds at most MaxProcessed keys; a key admitted
\* to a full set evicts exactly the oldest-inserted key and stays in the set itself, and
\* every other key stays, in insertion order; a request not admitted leaves the set alone.
C34_FifoEviction ==
  [][HookStep =>
       /\ Len(processedWebhooks') <= MaxProcessed
       /\ processedWebhooks' =
            IF response'.dedup # "admitted" THEN processedWebhooks
            ELSE IF Len(processedWebhooks) = MaxProcessed
              THEN Append(Tail(processedWebhooks), response'.key)
            ELSE Append(processedWebhooks, response'.key)]_vars

\* C34 witness: the set is full, the key admitted last is its newest and the first
\* random key, admitted earlier, has been evicted.
C34_Witness ==
  /\ Len(processedWebhooks) = MaxProcessed
  /\ response.dedup = "admitted"
  /\ processedWebhooks[Len(processedWebhooks)] = response.key
  /\ nextRandom > 1 /\ ~Seen(processedWebhooks, "random-1")

\* C36: for a call session whose webhooks carry no x-webhook-id, a correctly signed
\* /status webhook that follows the admitted /incoming webhook of the session is
\* forwarded to the handler.
C36_StatusAfterIncoming ==
  [][(/\ HookStep
      /\ response.dedup = "admitted" /\ request.route = "incoming" /\ request.id = NoStr
      /\ request'.route = "status" /\ request'.id = NoStr
      /\ SessionOf(request') # NoStr /\ SessionOf(request') = response.key
      /\ validate(request'.provider, request').next)
       => response'.handled]_vars

\* C37: a request rejected by signature verification (401 or 500) does not consume its
\* dedup key: the next request, correctly signed and with the same key, is forwarded to
\* the handler and not acknowledged as a duplicate.
C37_RejectedKeepsKeyFree ==
  [][(/\ HookStep
      /\ response.dedup = "admitted" /\ response.status \in {401, 500}
      /\ response'.key = response.key
      /\ validate(request'.provider, request').next)
       => (response'.handled /\ response'.dedup # "duplicate")]_vars

\* ------------------------------------------------------------------ claims: AgentConfig
\* C31: reading an AgentConfig whose stored providerApiKeys token is one that no encrypt
\* call returned (tampered or malformed) does not end as a success with absent keys: the
\* decryption failure reaches whoever asked for the keys.
C31_DecryptFailureSurfaced ==
  (/\ vault.op = "getConfigByTenantId"
   /\ ~falsyToken(vault.token) /\ IssuedAs(vault.token) = {})
    => ~(vault.out.result = "ok" /\ ~vault.out.value.defined)

\* ------------------------------------------------------------------ claims: deletion order
\* the rows of the child tables that belong to the Call c
ChildrenOf(c) == {x \in transcripts \cup extractions \cup recordings : x.callId = c.id}

\* C35: run() deletes in the order Transcripts, Extractions, Recordings, Calls, Caller: a
\* Call is never deleted while one of its Transcripts, Extractions or Recordings is
\* still stored, and a Caller is never deleted while one of its Calls is still stored.
C35_ChildrenFirst ==
  [][/\ \A c \in calls : (~\E d \in calls' : d.id = c.id) => ChildrenOf(c) = {}
     /\ \A k \in callers : (~\E j \in callers' : j.id = k.id) => callsOfCaller(k.id) = {}]_vars

\* C35 witness: a sweep has deleted a Caller, its two Calls and their rows.
C35_Witness ==
  /\ sweep["r1"].pc = "done" /\ sweep["r1"].deletedCallers = 1
  /\ sweep["r1"].deletedCalls = 2 /\ sweep["r1"].deletedTranscripts = 3

====
